---- MODULE Spec2Model ----
(***************************************************************************)
(* Model of the llm-viz record store (src/src/utils/responseDB.ts): the    *)
(* ResponseDB singleton over IndexedDB, its open / load / get / count /    *)
(* clear operations, and the callers that invoke them.                     *)
(*                                                                         *)
(* JavaScript runs one task at a time and drains its microtasks before the *)
(* next task, so an action is a task (a call, an IndexedDB event, the      *)
(* fetch settling) together with the continuations it resumes: the code    *)
(* after an await of an already settled promise, and the callers awaiting  *)
(* a promise the task settles.  The count() inside _loadFromFileInternal   *)
(* is left as a step of its own, so it may fall before or after the        *)
(* transactions other callers create in the same task.                     *)
(*                                                                         *)
(* IndexedDB is modelled by its ordering rules: transactions on the one    *)
(* object store run in creation order, read-only ones may overlap, a       *)
(* read-write one is exclusive, commits are atomic and an abort rolls the  *)
(* transaction back.                                                       *)
(***************************************************************************)
EXTENDS Integers, Sequences, FiniteSets, TLC

\* ---------------------------------------------------------------- bounds
NCallers == 2
MaxCalls == 3
MaxPayload == 2
MaxId == 2
MaxPoints == 2
MaxTokens == 2
MaxValues == 3
MaxLookups == 3

\* ------------------------------------------------------ program constants
DB_VERSION == 2
ProgressEvery == 100
minDist == 15
defaultMaxSurprisal == 10

Callers == 1..NCallers
\* every call of loadFromFile starts at most one run of _loadFromFileInternal
Ops == 1..MaxCalls
Ids == 1..MaxId

\* null / undefined of the record type, as records so that values compare
NULL == [i |-> 0, src |-> 0]
UNDEFINED == [i |-> -1, src |-> -1]
NoRes == [st |-> "none", err |-> "", n |-> 0, rec |-> NULL]

VARIABLES
  diskVersion,   \* version of the on-disk database, 0 = does not exist
  store,         \* the object store: key -> record
  db,            \* ResponseDB.db: "null" or "open"
  initPromise,   \* ResponseDB.initPromise: "null", "pending", "resolved", "rejected"
  loadPromise,   \* ResponseDB.loadPromise: 0 = null, else the load operation it is the promise of
  loadOp,        \* the runs of _loadFromFileInternal
  txq,           \* IndexedDB transactions not yet finished, in creation order
  callers,       \* the callers of the public methods
  waiters,       \* the callers awaiting the pending init promise, in call order
  payload,       \* the array served at the bulk url (ids of its entries, in order)
  calls,         \* history: number of calls made
  openRequests,  \* history: number of indexedDB.open requests issued
  fetches,       \* history: number of fetch(url) issued
  writeTxs,      \* history: number of ingestion transactions created
  clears,        \* history: number of clear requests that succeeded
  racedClears,   \* history: number of clears that took effect with a load in flight
  oldVersion     \* history: event.oldVersion seen by this session's open, -1 before it

vars == <<diskVersion, store, db, initPromise, loadPromise, loadOp, txq, callers, waiters,
          payload, calls, openRequests, fetches, writeTxs, clears, racedClears, oldVersion>>

\* ------------------------------------------------------------ pure helpers
\* the arrays of at most n entries over ids 1..m, ids numbered in order of
\* first appearance (any other array is one of these with its ids renamed)
RECURSIVE Payloads(_, _)
Payloads(m, n) ==
  IF n = 0 THEN {<<>>}
  ELSE LET shorter == Payloads(m, n - 1)
           Used(s) == {s[k] : k \in 1..Len(s)}
           NextIds(s) == {y \in 1..m : \A z \in 1..(y - 1) : z \in Used(s)}
       IN shorter \cup
          UNION {{Append(s, x) : x \in NextIds(s)} : s \in {t \in shorter : Len(t) = n - 1}}

EmptyStore == [k \in {} |-> NULL]

\* the i-th entry of the fetched array: key i, and src to tell entries apart
Item(data, k) == [i |-> data[k], src |-> k]

\* a record left by an earlier session
OldRecord(id) == [i |-> id, src |-> 0]

PutAdd(st, item) ==
  IF item.i \in DOMAIN st THEN st
  ELSE [k \in DOMAIN st \cup {item.i} |-> IF k = item.i THEN item ELSE st[k]]

\* store.put(item) on a store with keyPath "i": insert or overwrite
Put(st, item) ==
  [k \in DOMAIN st \cup {item.i} |-> IF k = item.i THEN item ELSE st[k]]

\* The two loops below are evaluated a block of iterations at a time, and a
\* comparison has the value of a block computed before the next block starts,
\* so that a long array is not one deep expression.
BlockEnd(k, n) == IF k + 15 < n THEN k + 15 ELSE n

RECURSIVE PutRange(_, _, _, _)
\* the iterations k..hi of the for loop of _loadFromFileInternal
PutRange(st, data, k, hi) ==
  IF k > hi THEN st ELSE PutRange(Put(st, Item(data, k)), data, k + 1, hi)

RECURSIVE PutAll(_, _, _)
\* the for loop of _loadFromFileInternal from entry k on: put every entry,
\* in array order
PutAll(st, data, k) ==
  IF k > Len(data) THEN st
  ELSE LET block == PutRange(st, data, k, BlockEnd(k, Len(data)))
       IN IF block = block THEN PutAll(block, data, BlockEnd(k, Len(data)) + 1) ELSE st

RECURSIVE ReportRange(_, _, _, _)
\* the onProgress calls of the iterations in which loaded is lo..hi
ReportRange(total, lo, hi, acc) ==
  IF lo > hi THEN acc
  ELSE ReportRange(total, lo + 1, hi,
         IF lo % ProgressEvery = 0
           THEN Append(acc, [loaded |-> lo, total |-> total, fromCache |-> FALSE])
           ELSE acc)

RECURSIVE ProgressReports(_, _, _)
\* the onProgress calls made inside the for loop: one every 100 records
ProgressReports(total, loaded, acc) ==
  IF loaded > total THEN acc
  ELSE LET block == ReportRange(total, loaded, BlockEnd(loaded, total), acc)
       IN IF block = block
            THEN ProgressReports(total, BlockEnd(loaded, total) + 1, block)
            ELSE acc

NeedsOpenAlways(d, ip) == d = "null" /\ ip # "pending"

\* init(): neither an open handle nor an init promise yet, so open the database
NeedsOpen(d, ip) == d = "null" /\ ip = "null"

KeepOldStore(from) == FALSE

\* onupgradeneeded: the v1 -> v2 upgrade deletes the old object store
DeletesOldStore(from) == from = 1 /\ DB_VERSION = 2

NeverAttaches(lp) == FALSE

\* loadFromFile: a load promise exists, return it
Attaches(lp) == lp # 0

ThrowsNever(ok) == FALSE

\* _loadFromFileInternal: if (!response.ok) throw
Throws(ok) == ~ok

CacheHitAboveOne(count) == count > 1

\* _loadFromFileInternal: "already loaded" check
CacheHit(count) == count > 0

GetFirstRecord(st, id) ==
  IF DOMAIN st = {} THEN NULL ELSE st[CHOOSE k \in DOMAIN st : \A j \in DOMAIN st : k <= j]

GetResultRaw(st, id) == IF id \in DOMAIN st THEN st[id] ELSE UNDEFINED

\* get: request.result || null
GetResult(st, id) == IF id \in DOMAIN st THEN st[id] ELSE NULL

\* count: store.count()
CountResult(st) == Cardinality(DOMAIN st)

\* clear: store.clear()
ClearedStore(st) == EmptyStore

ClearKeepsLoadPromise(lp) == lp

\* clear, request.onsuccess: this.loadPromise = null
ClearedLoadPromise(lp) == 0

AbortKeepsFirstPut(st, data) == IF Len(data) > 0 THEN Put(st, Item(data, 1)) ELSE st

\* an aborted transaction is rolled back: the store is as before it
AbortedStore(st, data) == st

IsWrite(tx) == tx.kind \in {"clear", "put"}

RemoveAt(q, k) == [j \in 1..(Len(q) - 1) |-> IF j < k THEN q[j] ELSE q[j + 1]]

\* a transaction runs once every read-write transaction created before it has
\* finished; a read-write one also waits for every earlier transaction
CanRun(q, k) ==
  IF IsWrite(q[k]) THEN k = 1 ELSE \A j \in 1..(k - 1) : ~IsWrite(q[j])

OpInFlight(o) == loadOp[o].pc \in {"awaitInit", "awaitCount", "awaitFetch", "awaitTx"}
OpSettled(o) == loadOp[o].pc \in {"resolved", "rejected"}
NumOps == Cardinality({o \in Ops : loadOp[o].pc # "unused"})

NoOp == [pc |-> "unused", owner |-> 0, path |-> "", resp |-> "", err |-> ""]

Resolved(n, rec) == [st |-> "resolved", err |-> "", n |-> n, rec |-> rec]
Rejected(e) == [st |-> "rejected", err |-> e, n |-> 0, rec |-> NULL]

\* a caller may call when it is not waiting for an earlier call of its own;
\* callers are interchangeable, so they are numbered in order of first call
CanCall(c) ==
  /\ callers[c].pc \in {"idle", "done"}
  /\ calls < MaxCalls
  /\ \A b \in 1..(c - 1) : callers[b].op # "none"

NewCall(op, pc, arg, ref, own) ==
  [op |-> op, pc |-> pc, arg |-> arg, ref |-> ref, own |-> own,
   prog |-> <<>>, res |-> NoRes]

\* what init / get / count / clear do once "await this.init()" is over, given
\* the outcome ip of the init promise and the handle d: the caller's next
\* position, its result, and whether it has created a transaction
AfterInit(op, d, ip) ==
  IF ip = "rejected" THEN [pc |-> "done", res |-> Rejected("open"), tx |-> FALSE]
  ELSE CASE op = "init" -> [pc |-> "done", res |-> Resolved(0, NULL), tx |-> FALSE]
         [] op = "get" ->
              IF d = "null"
                THEN [pc |-> "done", res |-> Rejected("DB not initialized"), tx |-> FALSE]
                ELSE [pc |-> "awaitTx", res |-> NoRes, tx |-> TRUE]
         [] op \in {"count", "clear"} ->
              IF d = "null"
                THEN [pc |-> "done", res |-> Resolved(0, NULL), tx |-> FALSE]
                ELSE [pc |-> "awaitTx", res |-> NoRes, tx |-> TRUE]

\* the callers awaiting the promise of load operation o resume with its outcome
SettleLoad(cs, o, pc, err) ==
  [c \in Callers |->
     IF cs[c].pc = "awaitLoad" /\ cs[c].ref = o
       THEN [cs[c] EXCEPT !.pc = "done",
                          !.res = IF pc = "resolved" THEN Resolved(0, NULL) ELSE Rejected(err)]
       ELSE cs[c]]

RECURSIVE WaiterTxs(_, _, _)
\* the transactions the resumed waiters create, in the order they resume
WaiterTxs(ws, d, ip) ==
  IF ws = <<>> THEN <<>>
  ELSE LET c == Head(ws)
       IN (IF AfterInit(callers[c].op, d, ip).tx
             THEN <<[kind |-> callers[c].op, who |-> c]>> ELSE <<>>)
          \o WaiterTxs(Tail(ws), d, ip)

\* every waiter resumes from "await this.init()"
ResumeWaiters(d, ip) ==
  [c \in Callers |->
     IF callers[c].pc = "awaitInit"
       THEN [callers[c] EXCEPT !.pc = AfterInit(callers[c].op, d, ip).pc,
                               !.res = AfterInit(callers[c].op, d, ip).res]
       ELSE callers[c]]

\* ======================================================== user interface
\* The state of the two React components and of the calls of the metric
\* functions.  The store actions above leave it alone; the specifications
\* of the components leave the store alone.
VARIABLES
  app,     \* the React state of App and the runs of initDB that have resumed
  viz,     \* the React state of EmbeddingVisualization and the canvas element's zoom
  detail,  \* the React state of DetailView
  mcall,   \* the last call of a metric function: its name and arguments
  mret     \* what that call returned or threw

\* App
loadingDB == app.loadingDB                \* loadingDB, true until a run of initDB is over
dbError == app.dbError                    \* the message of dbError, "" = null

\* EmbeddingVisualization
vizData == viz.data                       \* data, the points in file order
vizStatus == viz.status                   \* "loading", "ready" or "error" (loading / error)
activeClusters == viz.activeClusters      \* the set of clusters switched on
correctnessFilter == viz.correctnessFilter \* "all", "correct" or "incorrect"
confidenceRange == viz.confidenceRange    \* <<low, high>> of the confidence slider
transform == viz.transform                \* the zoom transform in React state, [k, x, y]
zoomProp == viz.zoomProp                  \* the transform d3-zoom keeps on the canvas (__zoom)
hoveredPoint == viz.hoveredPoint          \* index into data of the hovered point, 0 = null
mousePos == viz.mousePos                  \* pointer position of the last mousemove

\* DetailView
pointId == detail.pointId                 \* the pointId prop
lookups == detail.lookups                 \* ids of the responseDB.get calls in flight, in call order
\* data as the view renders it: the spinner while loading, else the error if
\* there is one, else the record
detailData ==
  [detail.data EXCEPT !.st = IF detail.loading THEN "loading"
                             ELSE IF detail.error # 0 THEN "error"
                             ELSE IF detail.data.id = 0 THEN "empty"
                             ELSE "ok"]
normMode == detail.normMode               \* "local" or "global"
metric == detail.metric                   \* "confidence", "surprisal" or "gap"
globalStats == detail.globalStats         \* the global stats, NoStats = null
statsFetch == detail.statsFetch           \* fetch of /global_stats.json: "pending", "done", "failed"

vizVars == <<viz>>
detailVars == <<detail>>
metricVars == <<mcall, mret>>
appVars == <<app>>
uiVars == <<app, viz, detail, mcall, mret>>

\* ---------------------------------------------------------------- numbers
\* A JavaScript number as the exact fraction n/d in lowest terms, d > 0.
\* d = 0 holds the values that are no fraction: n = 1 Infinity, n = -1
\* -Infinity, n = 0 NaN.  d = -1 is the value undefined (an array read past
\* its end, an absent field), which arithmetic converts to NaN.  The rounding
\* of 64-bit floats and the sign of zero are not modelled.
Abs(i) == IF i < 0 THEN -i ELSE i

Sign(i) == IF i > 0 THEN 1 ELSE IF i < 0 THEN -1 ELSE 0

RECURSIVE GCD(_, _)
GCD(a, b) == IF b = 0 THEN a ELSE GCD(b, a % b)

Q(n, d) ==
  IF d = 0 THEN [n |-> Sign(n), d |-> 0]
  ELSE LET g == GCD(Abs(n), Abs(d))
       IN [n |-> (Sign(d) * n) \div g, d |-> Abs(d) \div g]

NaN == [n |-> 0, d |-> 0]
Infinity == [n |-> 1, d |-> 0]
NegInfinity == [n |-> -1, d |-> 0]
Undef == [n |-> 0, d |-> -1]
Zero == Q(0, 1)
One == Q(1, 1)
Half == Q(1, 2)

IsUndef(a) == a.d < 0
IsNaN(a) == a.d = 0 /\ a.n = 0
IsFinite(a) == a.d > 0
ToNumber(a) == IF IsUndef(a) THEN NaN ELSE a

Neg(a) == LET x == ToNumber(a) IN [n |-> -x.n, d |-> x.d]

Add(a, b) ==
  LET x == ToNumber(a)
      y == ToNumber(b)
  IN IF IsNaN(x) \/ IsNaN(y) THEN NaN
     ELSE IF x.d = 0 /\ y.d = 0 THEN (IF x.n = y.n THEN x ELSE NaN)
     ELSE IF x.d = 0 THEN x
     ELSE IF y.d = 0 THEN y
     ELSE Q(x.n * y.d + y.n * x.d, x.d * y.d)

Sub(a, b) == Add(a, Neg(b))

Mul(a, b) ==
  LET x == ToNumber(a)
      y == ToNumber(b)
  IN IF x.d = 0 \/ y.d = 0 THEN Q(Sign(x.n) * Sign(y.n), 0)
     ELSE Q(x.n * y.n, x.d * y.d)

Div(a, b) ==
  LET x == ToNumber(a)
      y == ToNumber(b)
  IN IF IsNaN(x) \/ IsNaN(y) THEN NaN
     ELSE IF x.d = 0 THEN (IF y.d = 0 THEN NaN ELSE Q(x.n * (IF y.n < 0 THEN -1 ELSE 1), 0))
     ELSE IF y.d = 0 THEN Zero
     ELSE Q(x.n * y.d, x.d * y.n)

\* a < b of JavaScript: false when either side is NaN
Lt(a, b) ==
  LET x == ToNumber(a)
      y == ToNumber(b)
  IN /\ ~IsNaN(x)
     /\ ~IsNaN(y)
     /\ IF x.d = 0 /\ y.d = 0 THEN x.n < y.n
        ELSE IF x.d = 0 THEN x.n < 0
        ELSE IF y.d = 0 THEN y.n > 0
        ELSE x.n * y.d < y.n * x.d

Gt(a, b) == Lt(b, a)

\* a === b of JavaScript on numbers and undefined
StrictEq(a, b) == a = b /\ ~IsNaN(a)

Min2(a, b) ==
  LET x == ToNumber(a)
      y == ToNumber(b)
  IN IF IsNaN(x) \/ IsNaN(y) THEN NaN ELSE IF Lt(y, x) THEN y ELSE x

Max2(a, b) ==
  LET x == ToNumber(a)
      y == ToNumber(b)
  IN IF IsNaN(x) \/ IsNaN(y) THEN NaN ELSE IF Gt(y, x) THEN y ELSE x

\* Math.min(...s) and Math.max(...s): Infinity and -Infinity of no arguments
RECURSIVE MathMin(_)
MathMin(s) == IF s = <<>> THEN Infinity ELSE Min2(Head(s), MathMin(Tail(s)))

RECURSIVE MathMax(_)
MathMax(s) == IF s = <<>> THEN NegInfinity ELSE Max2(Head(s), MathMax(Tail(s)))

\* Math.floor and Math.round
Floor(a) ==
  LET x == ToNumber(a) IN IF x.d = 0 THEN x ELSE Q(x.n \div x.d, 1)

Round(a) == Floor(Add(a, Half))

\* the sequences over S of length lo..hi
SeqsOf(S, lo, hi) == UNION {[1..n -> S] : n \in lo..hi}

\* -------------------------------------------- the components, as mounted
\* d3.zoomIdentity
zoomIdentity == [k |-> One, x |-> Zero, y |-> Zero]

\* the state of EmbeddingVisualization after its first render
VizInit ==
  viz = [data |-> <<>>,
         status |-> "loading",
         activeClusters |-> {},
         correctnessFilter |-> "all",
         confidenceRange |-> <<Zero, One>>,
         transform |-> zoomIdentity,
         zoomProp |-> zoomIdentity,
         hoveredPoint |-> 0,
         mousePos |-> [x |-> Zero, y |-> Zero]]

\* a field of a stored record that should hold an array: absent, an array,
\* or some other JSON value
Absent == [kind |-> "absent", v |-> <<>>]
Arr(s) == [kind |-> "array", v |-> s]
NotArray == [kind |-> "other", v |-> <<>>]

\* globalStats === null, and a loaded stats object
NoStats == [present |-> FALSE, surprisal_p5 |-> Undef, surprisal_p95 |-> Undef,
            gap_p5 |-> Undef, gap_p95 |-> Undef]
Stats(s5, s95, g5, g95) ==
  [present |-> TRUE, surprisal_p5 |-> s5, surprisal_p95 |-> s95,
   gap_p5 |-> g5, gap_p95 |-> g95]

\* the record of a view that is still loading its point: data is null
LoadingRecord ==
  [st |-> "loading", id |-> 0, tokens |-> Absent, logprobs |-> Absent, logprobs2 |-> Absent]

\* the state of DetailView after its first render and its effects, mounted
\* for a point, which is given the id 1: the lookup of the point is in
\* flight, error is null (0)
DetailInit ==
  detail = [pointId |-> 1,
            lookups |-> <<1>>,
            data |-> LoadingRecord,
            loading |-> TRUE,
            error |-> 0,
            normMode |-> "local",
            metric |-> "confidence",
            globalStats |-> NoStats,
            statsFetch |-> "pending"]

\* the state of App once a run of initDB is over without an error: it
\* renders EmbeddingVisualization
AppLoaded == app = [loadingDB |-> FALSE, dbError |-> "", resumed |-> {}]

\* no metric function called yet
MetricsInit ==
  /\ mcall = [fn |-> "none", tokens |-> <<>>, values |-> Absent, values2 |-> Absent,
              mode |-> "local", stats |-> NoStats, p5 |-> Undef, p95 |-> Undef,
              pct |-> Undef]
  /\ mret = [st |-> "pending", out |-> <<>>]

\* no component is mounted and no metric function is called while the store
\* is looked at on its own: the variables of the user interface hold nothing
Unmounted ==
  /\ app = <<>>
  /\ viz = <<>>
  /\ detail = <<>>
  /\ mcall = <<>>
  /\ mret = <<>>

\* ------------------------------------------------------------------- Init
Init ==
  /\ payload \in Payloads(MaxId, MaxPayload)
  /\ diskVersion \in 0..DB_VERSION
  /\ store \in CASE diskVersion = 0 -> {EmptyStore}
                 [] diskVersion \in 1..(DB_VERSION - 1) ->
                      {[k \in 1..n |-> OldRecord(k)] : n \in 1..MaxId}
                 [] diskVersion = DB_VERSION ->
                      {[k \in 1..n |-> OldRecord(k)] : n \in 0..MaxId}
  /\ db = "null"
  /\ initPromise = "null"
  /\ loadPromise = 0
  /\ loadOp = [o \in Ops |-> NoOp]
  /\ txq = <<>>
  /\ callers = [c \in Callers |->
                 [op |-> "none", pc |-> "idle", arg |-> 0, ref |-> 0, own |-> FALSE,
                  prog |-> <<>>, res |-> NoRes]]
  /\ waiters = <<>>
  /\ calls = 0
  /\ openRequests = 0
  /\ fetches = 0
  /\ writeTxs = 0
  /\ clears = 0
  /\ racedClears = 0
  /\ oldVersion = -1
  /\ Unmounted

\* ----------------------------------------------------------------- init()
\* the synchronous part of init(), run by every public method before its
\* first await: issue indexedDB.open unless a handle or an init promise exists
InitSync ==
  IF NeedsOpen(db, initPromise)
    THEN /\ initPromise' = "pending"
         /\ openRequests' = openRequests + 1
    ELSE UNCHANGED <<initPromise, openRequests>>

\* request.onsuccess, preceded by onupgradeneeded when the disk is older; the
\* callers awaiting the init promise resume, in call order
OpenSuccess ==
  /\ initPromise = "pending"
  /\ db = "null"
  /\ oldVersion' = diskVersion
  /\ IF diskVersion < DB_VERSION /\ DeletesOldStore(diskVersion)
       THEN store' = EmptyStore
       ELSE UNCHANGED store
  /\ diskVersion' = DB_VERSION
  /\ db' = "open"
  /\ initPromise' = "resolved"
  /\ callers' = ResumeWaiters("open", "resolved")
  /\ txq' = txq \o WaiterTxs(waiters, "open", "resolved")
  /\ waiters' = <<>>
  /\ UNCHANGED <<uiVars, loadPromise, loadOp, payload, calls, openRequests,
                 fetches, writeTxs, clears, racedClears>>

\* request.onerror: the open failed, nothing on disk changes; the callers
\* awaiting the init promise are rejected
OpenError ==
  /\ initPromise = "pending"
  /\ db = "null"
  /\ initPromise' = "rejected"
  /\ callers' = ResumeWaiters("null", "rejected")
  /\ waiters' = <<>>
  /\ UNCHANGED <<uiVars, diskVersion, store, db, loadPromise, loadOp, txq, payload,
                 calls, openRequests, fetches, writeTxs, clears, racedClears, oldVersion>>

\* ------------------------------------------------------------------ calls
\* init(), get(id), count() or clear() is called: the synchronous part of
\* init(), then either the wait for the pending open or, the init promise
\* being settled, the code after "await this.init()" in the same task
Call(c, op, arg) ==
  /\ CanCall(c)
  /\ InitSync
  /\ IF initPromise' = "pending"
       THEN /\ callers' = [callers EXCEPT ![c] = NewCall(op, "awaitInit", arg, 0, FALSE)]
            /\ waiters' = Append(waiters, c)
            /\ UNCHANGED txq
       ELSE LET next == AfterInit(op, db, initPromise')
            IN /\ callers' = [callers EXCEPT
                     ![c] = [NewCall(op, next.pc, arg, 0, FALSE) EXCEPT !.res = next.res]]
               /\ txq' = IF next.tx THEN Append(txq, [kind |-> op, who |-> c]) ELSE txq
               /\ UNCHANGED waiters
  /\ calls' = calls + 1
  /\ UNCHANGED <<uiVars, diskVersion, store, db, loadPromise, loadOp, payload,
                 fetches, writeTxs, clears, racedClears, oldVersion>>

CallInit(c) == Call(c, "init", 0)

CallGet(c, id) == Call(c, "get", id)

CallCount(c) == Call(c, "count", 0)

CallClear(c) == Call(c, "clear", 0)

\* loadFromFile: return the existing load promise, or start
\* _loadFromFileInternal (which runs up to its await of init()) and keep its promise
CallLoad(c) ==
  /\ CanCall(c)
  /\ IF Attaches(loadPromise)
       THEN /\ callers' = SettleLoad(
                 [callers EXCEPT ![c] = NewCall("load", "awaitLoad", 0, loadPromise, FALSE)],
                 IF OpSettled(loadPromise) THEN loadPromise ELSE 0,
                 loadOp[loadPromise].pc, loadOp[loadPromise].err)
            /\ UNCHANGED <<loadPromise, loadOp, initPromise, openRequests>>
       ELSE LET o == NumOps + 1
            IN /\ InitSync
               /\ loadOp' = [loadOp EXCEPT ![o] = [NoOp EXCEPT !.pc = "awaitInit", !.owner = c]]
               /\ loadPromise' = o
               /\ callers' = [callers EXCEPT ![c] = NewCall("load", "awaitLoad", 0, o, TRUE)]
  /\ calls' = calls + 1
  /\ UNCHANGED <<uiVars, diskVersion, store, db, txq, waiters, payload,
                 fetches, writeTxs, clears, racedClears, oldVersion>>

\* _loadFromFileInternal after "await this.init()": the db check, then count()
LoadAfterInit(o) ==
  /\ loadOp[o].pc = "awaitInit"
  /\ initPromise \in {"resolved", "rejected"}
  /\ IF initPromise = "rejected" \/ db = "null"
       THEN LET e == IF initPromise = "rejected" THEN "open" ELSE "DB not initialized"
            IN /\ loadOp' = [loadOp EXCEPT ![o].pc = "rejected", ![o].err = e]
               /\ callers' = SettleLoad(callers, o, "rejected", e)
               /\ UNCHANGED txq
       ELSE /\ loadOp' = [loadOp EXCEPT ![o].pc = "awaitCount"]
            /\ txq' = Append(txq, [kind |-> "lcount", who |-> o])
            /\ UNCHANGED callers
  /\ UNCHANGED <<uiVars, diskVersion, store, db, initPromise, loadPromise, waiters, payload, calls,
                 openRequests, fetches, writeTxs, clears, racedClears, oldVersion>>

\* ------------------------------------------------- IndexedDB transactions
\* get, request.onsuccess
GetDone(k) ==
  /\ k \in 1..Len(txq) /\ txq[k].kind = "get" /\ CanRun(txq, k)
  /\ LET c == txq[k].who
     IN callers' = [callers EXCEPT ![c].pc = "done",
                                   ![c].res = Resolved(0, GetResult(store, callers[c].arg))]
  /\ txq' = RemoveAt(txq, k)
  /\ UNCHANGED <<uiVars, diskVersion, store, db, initPromise, loadPromise, loadOp, waiters, payload, calls,
                 openRequests, fetches, writeTxs, clears, racedClears, oldVersion>>

\* count, request.onsuccess
CountDone(k) ==
  /\ k \in 1..Len(txq) /\ txq[k].kind = "count" /\ CanRun(txq, k)
  /\ LET c == txq[k].who
     IN callers' = [callers EXCEPT ![c].pc = "done",
                                   ![c].res = Resolved(CountResult(store), NULL)]
  /\ txq' = RemoveAt(txq, k)
  /\ UNCHANGED <<uiVars, diskVersion, store, db, initPromise, loadPromise, loadOp, waiters, payload, calls,
                 openRequests, fetches, writeTxs, clears, racedClears, oldVersion>>

\* _loadFromFileInternal after "await this.count()": cache hit, or fetch(url)
LoadCountDone(k) ==
  /\ k \in 1..Len(txq) /\ txq[k].kind = "lcount" /\ CanRun(txq, k)
  /\ LET o == txq[k].who
         count == CountResult(store)
         report == [loaded |-> count, total |-> count, fromCache |-> TRUE]
     IN IF CacheHit(count)
          THEN /\ loadOp' = [loadOp EXCEPT ![o].pc = "resolved", ![o].path = "cache"]
               /\ callers' = SettleLoad(
                    [callers EXCEPT ![loadOp[o].owner].prog = Append(@, report)],
                    o, "resolved", "")
               /\ UNCHANGED fetches
          ELSE /\ loadOp' = [loadOp EXCEPT ![o].pc = "awaitFetch", ![o].path = "fetch"]
               /\ fetches' = fetches + 1
               /\ UNCHANGED callers
  /\ txq' = RemoveAt(txq, k)
  /\ UNCHANGED <<uiVars, diskVersion, store, db, initPromise, loadPromise, waiters, payload, calls,
                 openRequests, writeTxs, clears, racedClears, oldVersion>>

\* clear, request.onsuccess: the store is wiped and the load promise dropped
ClearDone(k) ==
  /\ k \in 1..Len(txq) /\ txq[k].kind = "clear" /\ CanRun(txq, k)
  /\ store' = ClearedStore(store)
  /\ loadPromise' = ClearedLoadPromise(loadPromise)
  /\ callers' = [callers EXCEPT ![txq[k].who].pc = "done",
                                ![txq[k].who].res = Resolved(0, NULL)]
  /\ txq' = RemoveAt(txq, k)
  /\ clears' = clears + 1
  /\ racedClears' = racedClears + (IF \E o \in Ops : OpInFlight(o) THEN 1 ELSE 0)
  /\ UNCHANGED <<uiVars, diskVersion, db, initPromise, loadOp, waiters, payload, calls,
                 openRequests, fetches, writeTxs, oldVersion>>

\* ------------------------------------------------------- fetch and ingest
\* the fetch settles.  response.ok: parse the array, open the read-write
\* transaction, put every entry (reporting progress) and wait for the
\* transaction to finish; otherwise throw "Failed to fetch"
FetchDone(o, ok) ==
  /\ loadOp[o].pc = "awaitFetch"
  /\ IF Throws(ok)
       THEN /\ loadOp' = [loadOp EXCEPT ![o].pc = "rejected", ![o].err = "fetch",
                                        ![o].resp = IF ok THEN "ok" ELSE "notok"]
            /\ callers' = SettleLoad(callers, o, "rejected", "fetch")
            /\ UNCHANGED <<txq, writeTxs>>
       ELSE /\ loadOp' = [loadOp EXCEPT ![o].pc = "awaitTx",
                                        ![o].resp = IF ok THEN "ok" ELSE "notok"]
            /\ callers' = [callers EXCEPT ![loadOp[o].owner].prog =
                              ProgressReports(Len(payload), 1, @)]
            /\ txq' = Append(txq, [kind |-> "put", who |-> o])
            /\ writeTxs' = writeTxs + 1
  /\ UNCHANGED <<uiVars, diskVersion, store, db, initPromise, loadPromise, waiters, payload, calls,
                 openRequests, fetches, clears, racedClears, oldVersion>>

FetchOk(o) == FetchDone(o, TRUE)

FetchNotOk(o) == FetchDone(o, FALSE)

\* transaction.oncomplete: every put is committed, final progress report
TxComplete(k) ==
  /\ k \in 1..Len(txq) /\ txq[k].kind = "put" /\ CanRun(txq, k)
  /\ store' = PutAll(store, payload, 1)
  /\ LET o == txq[k].who
         report == [loaded |-> Len(payload), total |-> Len(payload), fromCache |-> FALSE]
     IN /\ loadOp' = [loadOp EXCEPT ![o].pc = "resolved"]
        /\ callers' = SettleLoad(
             [callers EXCEPT ![loadOp[o].owner].prog = Append(@, report)], o, "resolved", "")
  /\ txq' = RemoveAt(txq, k)
  /\ UNCHANGED <<uiVars, diskVersion, db, initPromise, loadPromise, waiters, payload, calls,
                 openRequests, fetches, writeTxs, clears, racedClears, oldVersion>>

\* transaction.onerror / onabort: nothing of the transaction is kept
TxAbort(k) ==
  /\ k \in 1..Len(txq) /\ txq[k].kind = "put"
  /\ store' = AbortedStore(store, payload)
  /\ loadOp' = [loadOp EXCEPT ![txq[k].who].pc = "rejected", ![txq[k].who].err = "tx"]
  /\ callers' = SettleLoad(callers, txq[k].who, "rejected", "tx")
  /\ txq' = RemoveAt(txq, k)
  /\ UNCHANGED <<uiVars, diskVersion, db, initPromise, loadPromise, waiters, payload, calls,
                 openRequests, fetches, writeTxs, clears, racedClears, oldVersion>>

\* ------------------------------------------------------------------- Next
Next ==
  \/ \E c \in Callers : CallInit(c)
  \/ \E c \in Callers : CallLoad(c)
  \/ \E c \in Callers, id \in Ids : CallGet(c, id)
  \/ \E c \in Callers : CallCount(c)
  \/ \E c \in Callers : CallClear(c)
  \/ OpenSuccess
  \/ OpenError
  \/ \E o \in Ops : LoadAfterInit(o)
  \/ \E k \in 1..MaxCalls : GetDone(k)
  \/ \E k \in 1..MaxCalls : CountDone(k)
  \/ \E k \in 1..MaxCalls : LoadCountDone(k)
  \/ \E k \in 1..MaxCalls : ClearDone(k)
  \/ \E o \in Ops : FetchOk(o)
  \/ \E o \in Ops : FetchNotOk(o)
  \/ \E k \in 1..MaxCalls : TxComplete(k)
  \/ \E k \in 1..MaxCalls : TxAbort(k)

Spec == Init /\ [][Next]_vars

\* ========================================================== properties
LoadCallers == {c \in Callers : callers[c].op = "load"}
PayloadIds == {payload[k] : k \in 1..Len(payload)}
FetchedAndResolved == \E o \in Ops : loadOp[o].pc = "resolved" /\ loadOp[o].path = "fetch"

\* the entry of the payload a lookup of id must give after an ingestion into
\* an empty store: the last one carrying that id, null when there is none
LastEntry(data, id) ==
  IF \E k \in 1..Len(data) : data[k] = id
    THEN LET last == CHOOSE k \in 1..Len(data) :
                       data[k] = id /\ \A j \in (k + 1)..Len(data) : data[j] # id
         IN [i |-> id, src |-> last]
    ELSE NULL

C2_EveryCallReportsCacheHit ==
  \A c \in LoadCallers :
    (/\ callers[c].pc = "done"
     /\ callers[c].res.st = "resolved"
     /\ CountResult(store) > 0
     /\ clears = 0 /\ fetches = 0
     /\ oldVersion = DB_VERSION)
    => callers[c].prog =
         << [loaded |-> CountResult(store), total |-> CountResult(store), fromCache |-> TRUE] >>

\* C2 amended: a load() call that starts a load operation and whose count check
\* finds N > 0 records gets exactly one onProgress call, (N, N, true), resolves,
\* issues no fetch and no write and leaves the store unchanged; a load() call
\* that attaches to an existing load promise gets no onProgress call at all.
C2_CacheHitShortcut ==
  [][ /\ \A o \in Ops :
           (loadOp[o].pc = "awaitCount" /\ loadOp'[o].pc # "awaitCount" /\ CountResult(store) > 0)
           => /\ loadOp'[o].pc = "resolved"
              /\ callers'[loadOp[o].owner].prog =
                   << [loaded |-> CountResult(store), total |-> CountResult(store), fromCache |-> TRUE] >>
              /\ fetches' = fetches
              /\ writeTxs' = writeTxs
              /\ store' = store
              /\ \A k \in 1..Len(txq') : txq'[k].kind # "put" \/ txq'[k].who # o
      /\ \A c \in Callers :
           (callers'[c].op = "load" /\ ~callers'[c].own) => callers'[c].prog = <<>>
      /\ \A o \in Ops :
           (loadOp'[o].path = "cache" /\ callers'[loadOp'[o].owner].ref = o
              /\ callers'[loadOp'[o].owner].op = "load" /\ callers'[loadOp'[o].owner].own)
           => /\ Len(callers'[loadOp'[o].owner].prog) = 1
              /\ callers'[loadOp'[o].owner].prog[1].fromCache
    ]_vars

\* a load() call that started on a store of two records left by an earlier
\* session and resolved from the cache, and a second call attached to it
W_C2 ==
  /\ fetches = 0
  /\ CountResult(store) = 2
  /\ \E c \in LoadCallers :
       /\ callers[c].own /\ callers[c].pc = "done"
       /\ callers[c].prog = << [loaded |-> 2, total |-> 2, fromCache |-> TRUE] >>
  /\ \E c \in LoadCallers : ~callers[c].own /\ callers[c].pc = "done" /\ callers[c].res.st = "resolved"

\* C3: a clear() that succeeds with no load in flight leaves an empty store
\* (count 0) and no load promise; the next load() then starts a new load
\* operation instead of attaching to the settled one, its count check finds 0
\* and it fetches, so when no clear ever raced a load the operation the load
\* promise stands for has fetched and ingested the payload again.
C3_ClearResetsLoad ==
  [][ /\ \A c \in Callers :
           (callers[c].op = "clear" /\ callers[c].pc = "awaitTx" /\ callers'[c].pc = "done"
              /\ ~\E o \in Ops : OpInFlight(o))
           => /\ callers'[c].res.st = "resolved"
              /\ CountResult(store') = 0
              /\ loadPromise' = 0
      /\ \A c \in Callers :
           (loadPromise = 0 /\ callers'[c] # callers[c] /\ callers'[c].op = "load"
              /\ calls' = calls + 1)
           => /\ callers'[c].own
              /\ loadOp[callers'[c].ref].pc = "unused"
              /\ loadOp'[callers'[c].ref].pc = "awaitInit"
      /\ \A o \in Ops :
           (loadOp[o].pc = "awaitCount" /\ loadOp'[o].pc # "awaitCount" /\ CountResult(store) = 0)
           => loadOp'[o].pc = "awaitFetch" /\ fetches' = fetches + 1
      /\ (clears' >= 1 /\ racedClears' = 0 /\ loadPromise' # 0)
           => /\ loadOp'[loadPromise'].path # "cache"
              /\ loadOp'[loadPromise'].pc = "resolved" => store' = PutAll(EmptyStore, payload, 1)
    ]_vars

\* load, clear, load: the second load fetched again and resolved
W_C3 ==
  /\ clears = 1 /\ racedClears = 0
  /\ fetches = 2
  /\ loadPromise = 2
  /\ loadOp[2].pc = "resolved"
  /\ CountResult(store) > 0

\* C4: once a load that fetched has resolved (and no clear has taken effect),
\* the store maps every payload id to the last payload entry carrying it and
\* holds nothing else, and every get(id) completing from then on returns that
\* entry, or null for an id the payload does not contain.
C4_GetAfterLoad ==
  [][ (clears' = 0 /\ \E o \in Ops : loadOp'[o].pc = "resolved" /\ loadOp'[o].path = "fetch")
      => /\ \A id \in Ids : GetResult(store', id) = LastEntry(payload, id)
         /\ \A k \in DOMAIN store' : store'[k].i = k /\ k \in PayloadIds
         /\ \A c \in Callers :
              (callers[c].op = "get" /\ callers[c].pc = "awaitTx" /\ callers'[c].pc = "done"
                 /\ FetchedAndResolved)
              => /\ callers'[c].res.st = "resolved"
                 /\ callers'[c].res.rec = LastEntry(payload, callers[c].arg)
    ]_vars

\* payload [1, 1]: after the load resolved, get(1) returned the second entry
W_C4 ==
  /\ payload = <<1, 1>>
  /\ FetchedAndResolved /\ clears = 0
  /\ \E c \in Callers :
       /\ callers[c].op = "get" /\ callers[c].pc = "done" /\ callers[c].arg = 1
       /\ callers[c].res.rec = [i |-> 1, src |-> 2]

OpenState ==
  CASE initPromise = "null" -> "Uninitialized"
    [] initPromise = "pending" -> "Opening"
    [] initPromise = "resolved" -> "Ready"
    [] initPromise = "rejected" -> "Failed"

\* C6: every completed count() has resolved, with the number of records in
\* the store, and with 0 when the store could not be opened.
C6_CountZeroWhenOpenFails ==
  \A c \in Callers :
    (callers[c].op = "count" /\ callers[c].pc = "done")
    => /\ callers[c].res.st = "resolved"
       /\ initPromise = "rejected" => callers[c].res.n = 0

\* C7: a load whose fetch response is not ok is rejected without creating a
\* transaction or changing the store; a load whose ingestion transaction
\* aborts is rejected and the store is what it was before the transaction;
\* every caller of load() that has settled on a rejected load operation has
\* been rejected with that operation's error.
C7_LoadFailureSurfaces ==
  [][ /\ \A o \in Ops :
           /\ loadOp'[o].resp = "notok" => loadOp'[o].pc = "rejected" /\ loadOp'[o].err = "fetch"
           /\ (loadOp[o].pc = "awaitFetch" /\ loadOp'[o].resp = "notok")
              => store' = store /\ txq' = txq /\ writeTxs' = writeTxs
           /\ (loadOp[o].pc = "awaitTx" /\ loadOp'[o].pc = "rejected")
              => /\ store' = store
                 /\ loadOp'[o].err = "tx"
                 /\ \A k \in 1..Len(txq') : txq'[k].kind # "put" \/ txq'[k].who # o
      /\ \A c \in Callers :
           (callers'[c].op = "load" /\ callers'[c].pc = "done"
              /\ loadOp'[callers'[c].ref].pc = "rejected")
           => /\ callers'[c].res.st = "rejected"
              /\ callers'[c].res.err = loadOp'[callers'[c].ref].err
    ]_vars

\* two callers of load(), both rejected because the fetch response was not ok,
\* with the store left as the empty store it was
W_C7 ==
  /\ \A c \in Callers : callers[c].op = "load" /\ callers[c].pc = "done"
                        /\ callers[c].res = Rejected("fetch")
  /\ \E o \in Ops : loadOp[o].resp = "notok"
  /\ store = EmptyStore
  /\ writeTxs = 0

\* a load rejected by an aborted ingestion transaction
W_C7_Abort ==
  /\ \E o \in Ops : loadOp[o].pc = "rejected" /\ loadOp[o].err = "tx"
  /\ \E c \in LoadCallers : callers[c].pc = "done" /\ callers[c].res = Rejected("tx")

\* C8: the open state only moves Uninitialized -> Opening -> Ready or
\* Opening -> Failed, at most one open request is ever issued, the handle is
\* set exactly when the state is Ready, and every call that has passed its
\* wait for the open saw the one outcome: rejected by the open error exactly
\* when the open failed.
C8_OpenIdempotent ==
  [][ /\ <<OpenState, OpenState'>> \in
           { <<"Uninitialized", "Uninitialized">>, <<"Uninitialized", "Opening">>,
             <<"Opening", "Opening">>, <<"Opening", "Ready">>, <<"Opening", "Failed">>,
             <<"Ready", "Ready">>, <<"Failed", "Failed">> }
      /\ openRequests' <= 1
      /\ (openRequests' = 1) = (OpenState' # "Uninitialized")
      /\ (db' = "open") = (OpenState' = "Ready")
      /\ \A c \in Callers :
           (callers'[c].op \in {"init", "get", "count", "clear"}
              /\ callers'[c].pc \in {"awaitTx", "done"})
           => /\ OpenState' \in {"Ready", "Failed"}
              /\ (callers'[c].pc = "done" /\ callers'[c].res.err = "open") = (OpenState' = "Failed")
      /\ \A o \in Ops :
           loadOp'[o].pc \notin {"unused", "awaitInit"}
           => /\ OpenState' \in {"Ready", "Failed"}
              /\ (loadOp'[o].err = "open") = (OpenState' = "Failed")
    ]_vars

\* two calls made while the open was pending, both rejected by its failure
W_C8 ==
  /\ OpenState = "Failed"
  /\ openRequests = 1
  /\ \A c \in Callers : callers[c].pc = "done" /\ callers[c].res = Rejected("open")
  /\ calls = NCallers

\* two calls made while the open was pending, both past it after its success
W_C8_Ready ==
  /\ OpenState = "Ready"
  /\ openRequests = 1
  /\ calls = NCallers
  /\ \A c \in Callers : callers[c].pc = "done" /\ callers[c].res.st = "resolved"

\* C9: no clear() takes effect while a load operation is in flight, and at
\* most one load operation is in flight at any time.
C9_ClearNeverRacesLoad ==
  /\ racedClears = 0
  /\ Cardinality({o \in Ops : OpInFlight(o)}) <= 1

\* C10: an open that finds an older on-disk version leaves the store empty,
\* so that a count completing before any fetch gives 0 and no load takes the
\* cache-hit path before a fetch was made; an open that finds the expected
\* version leaves the store as it was.
C10_UpgradeDiscardsRecords ==
  [][ /\ (db = "null" /\ db' = "open")
           => /\ oldVersion' = diskVersion
              /\ diskVersion' = DB_VERSION
              /\ diskVersion < DB_VERSION => store' = EmptyStore
              /\ diskVersion = DB_VERSION => store' = store
      /\ (oldVersion' \in 0..(DB_VERSION - 1) /\ fetches' = 0)
           => /\ store' = EmptyStore
              /\ \A o \in Ops : loadOp'[o].path # "cache"
              /\ \A c \in Callers :
                   (callers'[c].op = "count" /\ callers'[c].pc = "done"
                      /\ callers'[c].res.st = "resolved")
                   => callers'[c].res.n = 0
    ]_vars

\* a load called on a version 1 disk that held records: the open discarded
\* them and the load fetched
W_C10 ==
  /\ oldVersion = 1
  /\ \E c \in LoadCallers :
       /\ callers[c].own
       /\ loadOp[callers[c].ref].path = "fetch"
       /\ loadOp[callers[c].ref].pc = "resolved"

\* a count on a disk already at the expected version that held two records
W_C10_Kept ==
  /\ oldVersion = DB_VERSION
  /\ fetches = 0 /\ clears = 0
  /\ \E c \in Callers : callers[c].op = "count" /\ callers[c].pc = "done" /\ callers[c].res.n = 2

\* c calls load() in this step
LoadCalled(c) ==
  /\ calls' = calls + 1
  /\ callers'[c] # callers[c]
  /\ callers'[c].op = "load"

\* the load operation started last
LastOp == NumOps

\* no clear() has taken effect since the last load operation settled: none
\* at all, or only clears that took effect while that operation, the only
\* one so far, was in flight
NoClearSinceSettled == clears = 0 \/ (clears = racedClears /\ NumOps = 1)

\* C27: a load() called after the last load operation was rejected, with no
\* clear() having taken effect since that rejection, is rejected with the
\* same error at once, and starts no load operation, no fetch and no write.
C27_FailedLoadNotRetried ==
  [][ \A c \in Callers :
        (/\ LoadCalled(c)
         /\ LastOp > 0
         /\ loadOp[LastOp].pc = "rejected"
         /\ NoClearSinceSettled)
        => /\ callers'[c].pc = "done"
           /\ callers'[c].res = Rejected(loadOp[LastOp].err)
           /\ loadOp' = loadOp
           /\ fetches' = fetches
           /\ writeTxs' = writeTxs
    ]_vars

\* what a completed ingestion leaves in an empty store
FullStore == PutAll(EmptyStore, payload, 1)

\* the store holds nothing but what an earlier session left
LeftByEarlierSession(st) == \A k \in DOMAIN st : st[k] = OldRecord(k)

\* empty, the full payload, or untouched since an earlier session filled it
Whole(st) == st = EmptyStore \/ st = FullStore \/ LeftByEarlierSession(st)

\* C28: as long as no clear() has taken effect the store is empty, holds
\* exactly the full payload, or holds what an earlier session left and this
\* session has not written to; a step changes the store only to empty or to
\* the full payload, the latter by the one read-write transaction of a load
\* operation; and every get, count and cache-hit check that completes has
\* read such a store and reports what it holds.
C28_IngestionAtomic ==
  [][ /\ clears' = 0 => Whole(store')
      /\ (clears' = 0 /\ writeTxs' = 0 /\ db = "open") => store' = store
      /\ store' # store => store' = EmptyStore \/ store' = FullStore
      /\ \A o \in Ops : Cardinality({k \in 1..Len(txq') : txq'[k] = [kind |-> "put", who |-> o]}) <= 1
      /\ clears = 0 =>
           \A c \in Callers :
             (callers[c].pc = "awaitTx" /\ callers'[c].pc = "done") =>
               /\ Whole(store)
               /\ callers[c].op = "count" => callers'[c].res.n = Cardinality(DOMAIN store)
               /\ callers[c].op = "get" => callers'[c].res.rec = GetResult(store, callers[c].arg)
      /\ clears = 0 =>
           \A o \in Ops :
             (loadOp[o].pc = "awaitCount" /\ loadOp'[o].pc # "awaitCount") =>
               /\ Whole(store)
               /\ (loadOp'[o].path = "cache") = (store # EmptyStore)
    ]_vars

\* the ingestion of a payload of two ids was aborted and a count() that
\* completed afterwards found the store empty
W_C28 ==
  /\ clears = 0
  /\ Cardinality(PayloadIds) = 2
  /\ \E o \in Ops : loadOp[o].pc = "rejected" /\ loadOp[o].err = "tx"
  /\ store = EmptyStore
  /\ \E c \in Callers :
       callers[c].op = "count" /\ callers[c].pc = "done" /\ callers[c].res = Resolved(0, NULL)

\* the ingestion of a payload of two ids completed and a count() that
\* completed afterwards found both records
W_C28_Full ==
  /\ clears = 0
  /\ Cardinality(PayloadIds) = 2
  /\ FetchedAndResolved
  /\ store = FullStore
  /\ \E c \in Callers :
       callers[c].op = "count" /\ callers[c].pc = "done" /\ callers[c].res = Resolved(2, NULL)

\* ================================================ EmbeddingVisualization
\* A point of the merged data file.  px, py are the point's pixel position
\* on the untransformed canvas, xScale(d.x) and yScale(d.y); isCorrect and
\* avgConfidence are Undef when the field is absent.  A point's id is its
\* index in the file.
Point(cl, c, a, pos) ==
  [cluster |-> cl, isCorrect |-> c, avgConfidence |-> a, px |-> pos[1], py |-> pos[2]]

\* cluster numbers of at most n points, numbered in order of first
\* appearance (any other assignment is one of these with clusters renamed)
RECURSIVE ClusterSeqs(_)
ClusterSeqs(n) ==
  IF n = 0 THEN {<<>>}
  ELSE UNION {{Append(s, c) : c \in 0..Cardinality({s[i] : i \in 1..Len(s)})} :
               s \in ClusterSeqs(n - 1)}

\* the files of at most MaxPoints points with attributes from the given sets
Datasets(corr, conf, poss) ==
  UNION {UNION {{[i \in 1..n |-> Point(cs[i], f[i][1], f[i][2], f[i][3])] :
                  f \in [1..n -> corr \X conf \X poss]} :
                cs \in ClusterSeqs(n)} :
         n \in 0..MaxPoints}

\* points that differ in the fields the filters read
FilterDatasets == Datasets({Zero, One, Undef}, {Undef, Q(1, 5), Q(9, 10)}, {<<Zero, Zero>>})

\* points that differ in where they are drawn
PickDatasets ==
  Datasets({One}, {Half}, {<<Q(9, 1), Q(12, 1)>>, <<Q(3, 1), Q(4, 1)>>})

\* positions the pointer is moved to
Pointers == {[x |-> Q(6, 1), y |-> Q(8, 1)], [x |-> Q(18, 1), y |-> Q(24, 1)]}

\* scales and translations a zoom or pan gesture asks for
RequestedScales == {Half, Q(50, 1)}
Pans == {Zero, Q(-6, 1)}

\* values the two handles of the confidence slider are dragged to
SliderStops == {Q(1, 5), Q(9, 10)}

\* new Set(data.map(p => p.cluster))
ClustersOf(dat) == {dat[i].cluster : i \in 1..Len(dat)}

\* data.map(d => d.avgConfidence).filter(c => c !== undefined)
Confidences(dat) ==
  SelectSeq([i \in 1..Len(dat) |-> dat[i].avgConfidence], LAMBDA c : ~IsUndef(c))

\* confidenceDataRange
confidenceDataRange(dat) ==
  IF Len(dat) = 0 \/ Confidences(dat) = <<>> THEN <<Zero, One>>
  ELSE <<MathMin(Confidences(dat)), MathMax(Confidences(dat))>>

\* the confidence test of filteredData, on a point that has the field
InsideRangeAlways(c, range) == TRUE

InsideRange(c, range) == ~(Lt(c, range[1]) \/ Gt(c, range[2]))

\* the correctness test of filteredData
CorrectnessPasses(c, filter) ==
  /\ ~(filter = "correct" /\ ~StrictEq(c, One))
  /\ ~(filter = "incorrect" /\ ~StrictEq(c, Zero))

\* the callback of data.filter
Visible(d, clusters, filter, range) ==
  /\ d.cluster \in clusters
  /\ IsUndef(d.avgConfidence) \/ InsideRange(d.avgConfidence, range)
  /\ CorrectnessPasses(d.isCorrect, filter)

\* filteredData, as the indices of the points kept
filteredData ==
  {i \in 1..Len(vizData) :
     Visible(vizData[i], activeClusters, correctnessFilter, confidenceRange)}

\* transform.applyX(xScale(d.x)), transform.applyY(yScale(d.y))
applyX(t, px) == Add(Mul(px, t.k), t.x)
applyY(t, py) == Add(Mul(py, t.k), t.y)

\* squared distance on screen between point d and the pointer m
Dist2(d, t, m) ==
  LET dx == Sub(applyX(t, d.px), m.x)
      dy == Sub(applyY(t, d.py), m.y)
  IN Add(Mul(dx, dx), Mul(dy, dy))

\* quadtree.find(mx, my, minDist): the results d3 may return, 0 for
\* undefined.  d3 keeps a point when its squared distance is below the
\* squared radius and below that of the best point so far; which of two
\* equally near points it visits first depends on the shape of the tree.
WithinAlways(d2, radius) == TRUE

Within(d2, radius) == Lt(d2, Mul(radius, radius))

\* two points drawn at the same place
Coincide(a, b, t) ==
  /\ applyX(t, a.px) = applyX(t, b.px)
  /\ applyY(t, a.py) = applyY(t, b.py)

\* quadtree.addAll(filteredData): points at the same place share one leaf,
\* a list headed by the point added last, and find reads the head only
LeafHeads(shown, dat, t) ==
  {i \in shown : \A j \in shown : (j > i) => ~Coincide(dat[i], dat[j], t)}

quadtreeFind(m, shown, dat, t) ==
  LET near == {i \in LeafHeads(shown, dat, t) : Within(Dist2(dat[i], t, m), Q(minDist, 1))}
  IN IF near = {} THEN {0}
     ELSE {i \in near : \A j \in near : ~Lt(Dist2(dat[j], t, m), Dist2(dat[i], t, m))}

\* zoom.scaleExtent([0.8, 40])
scaleExtent == <<Q(4, 5), Q(40, 1)>>

scaleAsRequested(k) == k

\* the scale d3 gives a gesture that asks for k
constrainScale(k) == Max2(scaleExtent[1], Min2(scaleExtent[2], k))

\* --------------------------------------------------------------- handlers
nonVizVars == <<vars, appVars, detailVars, metricVars>>

\* the merged data file arrives: setData, setActiveClusters,
\* setConfidenceRange, setLoading(false)
DataLoaded(dat) ==
  /\ vizStatus = "loading"
  /\ viz' = [viz EXCEPT
               !.data = dat,
               !.activeClusters = ClustersOf(dat),
               !.confidenceRange = <<MathMin(Confidences(dat)), MathMax(Confidences(dat))>>,
               !.status = "ready"]
  /\ UNCHANGED nonVizVars

\* the fetch fails or answers not ok: setError, setLoading(false)
DataFailed ==
  /\ vizStatus = "loading"
  /\ viz' = [viz EXCEPT !.status = "error"]
  /\ UNCHANGED nonVizVars

\* a cluster of the legend is clicked
handleToggleCluster(cluster) ==
  /\ vizStatus = "ready"
  /\ cluster \in ClustersOf(vizData)
  /\ viz' = [viz EXCEPT !.activeClusters = IF cluster \in activeClusters
                                             THEN activeClusters \ {cluster}
                                             ELSE activeClusters \cup {cluster}]
  /\ UNCHANGED nonVizVars

\* one of the three correctness buttons is clicked
setCorrectnessFilter(filter) ==
  /\ vizStatus = "ready"
  /\ viz' = [viz EXCEPT !.correctnessFilter = filter]
  /\ UNCHANGED nonVizVars

\* the slider, whose ends are confidenceDataRange, reports its two handles
setConfidenceRange(lo, hi) ==
  /\ vizStatus = "ready"
  /\ ~Lt(lo, confidenceDataRange(vizData)[1])
  /\ ~Gt(hi, confidenceDataRange(vizData)[2])
  /\ ~Gt(lo, hi)
  /\ viz' = [viz EXCEPT !.confidenceRange = <<lo, hi>>]
  /\ UNCHANGED nonVizVars

\* a wheel or drag gesture on the canvas: the zoom behaviour of the effect
\* moves the element's transform within the scale extent and its "zoom"
\* listener stores it in React state
zoomed(k, x, y) ==
  /\ vizStatus = "ready"
  /\ LET t == [k |-> constrainScale(k), x |-> x, y |-> y]
     IN /\ t # zoomProp
        /\ viz' = [viz EXCEPT !.zoomProp = t, !.transform = t]
  /\ UNCHANGED nonVizVars

\* mousemove on the canvas
handleMouseMove(m) ==
  /\ vizStatus = "ready"
  /\ \E found \in quadtreeFind(m, filteredData, vizData, transform) :
       viz' = [viz EXCEPT !.hoveredPoint = found, !.mousePos = m]
  /\ UNCHANGED nonVizVars

\* mouseleave on the canvas
handleMouseLeave ==
  /\ vizStatus = "ready"
  /\ viz' = [viz EXCEPT !.hoveredPoint = 0]
  /\ UNCHANGED nonVizVars

\* the Reset View button.  The transition runs zoom.transform of a zoom
\* behaviour made on the spot, which has no "zoom" listener: it brings the
\* element's transform to the identity and reports it to nobody, so the
\* transform in React state stays as it is.
handleResetView ==
  /\ vizStatus = "ready"
  /\ viz' = [viz EXCEPT
               !.zoomProp = zoomIdentity,
               !.activeClusters = ClustersOf(vizData),
               !.correctnessFilter = "all",
               !.confidenceRange = confidenceDataRange(vizData)]
  /\ UNCHANGED nonVizVars

\* the store is not opened while the components are looked at on their own
StoreIdle ==
  /\ payload = <<>>
  /\ diskVersion = 0
  /\ store = EmptyStore
  /\ db = "null"
  /\ initPromise = "null"
  /\ loadPromise = 0
  /\ loadOp = [o \in Ops |-> NoOp]
  /\ txq = <<>>
  /\ callers = [c \in Callers |->
                 [op |-> "none", pc |-> "idle", arg |-> 0, ref |-> 0, own |-> FALSE,
                  prog |-> <<>>, res |-> NoRes]]
  /\ waiters = <<>>
  /\ calls = 0
  /\ openRequests = 0
  /\ fetches = 0
  /\ writeTxs = 0
  /\ clears = 0
  /\ racedClears = 0
  /\ oldVersion = -1

FilterHandlers ==
  \/ \E c \in 0..(MaxPoints - 1) : handleToggleCluster(c)
  \/ \E f \in {"all", "correct", "incorrect"} : setCorrectnessFilter(f)
  \/ \E lo \in SliderStops, hi \in SliderStops : setConfidenceRange(lo, hi)
  \/ handleResetView

\* the filters of the visualization, over points that differ in the fields
\* the filters read
FilterInit == StoreIdle /\ AppLoaded /\ VizInit /\ DetailInit /\ MetricsInit

FilterNext ==
  \/ \E dat \in FilterDatasets : DataLoaded(dat)
  \/ DataFailed
  \/ FilterHandlers

FilterSpec == FilterInit /\ [][FilterNext]_vizVars

\* the whole visualization, over points that differ in position
VizNext ==
  \/ \E dat \in PickDatasets : DataLoaded(dat)
  \/ DataFailed
  \/ FilterHandlers
  \/ \E k \in RequestedScales, x \in Pans : zoomed(k, x, Zero)
  \/ \E m \in Pointers : handleMouseMove(m)
  \/ handleMouseLeave

VizSpec == FilterInit /\ [][VizNext]_vizVars

\* ------------------------------------------------- properties of the view
\* squared screen distance of point i to the pointer of the last mousemove
HoverDist2(i) == Dist2(vizData[i], transform, mousePos)

PickRadius2 == Q(minDist * minDist, 1)

\* C11: a point that carries both optional fields is in the visible subset
\* if and only if its cluster is active, the correctness filter is "all" or
\* names its isCorrect, and its avgConfidence is neither below the low end
\* nor above the high end of the confidence range.
C11_VisibleIffAllThree ==
  \A i \in 1..Len(vizData) :
    LET d == vizData[i]
    IN (~IsUndef(d.isCorrect) /\ ~IsUndef(d.avgConfidence)) =>
         (i \in filteredData <=>
            /\ d.cluster \in activeClusters
            /\ \/ correctnessFilter = "all"
               \/ correctnessFilter = "correct" /\ d.isCorrect = One
               \/ correctnessFilter = "incorrect" /\ d.isCorrect = Zero
            /\ ~Lt(d.avgConfidence, confidenceRange[1])
            /\ ~Lt(confidenceRange[2], d.avgConfidence))

\* an incorrect point of confidence 0.9 in an active cluster, inside the
\* range, hidden by the "correct" filter; and a point hidden by the range alone
W_C11 ==
  /\ correctnessFilter = "correct"
  /\ \E i \in 1..Len(vizData) :
       /\ vizData[i].cluster \in activeClusters
       /\ vizData[i].isCorrect = Zero
       /\ vizData[i].avgConfidence = Q(9, 10)
       /\ confidenceRange = <<Q(1, 5), Q(9, 10)>>
       /\ i \notin filteredData
  /\ \E j \in 1..Len(vizData) :
       /\ vizData[j].cluster \in activeClusters
       /\ vizData[j].isCorrect = One
       /\ vizData[j].avgConfidence = Q(1, 5)
       /\ j \in filteredData

\* C12: a point is visible if and only if its cluster is active, its
\* isCorrect is absent or passes the correctness filter, and its
\* avgConfidence is absent or inside the confidence range: an absent
\* optional field never hides a point.
C12_AbsentFieldsPass ==
  \A i \in 1..Len(vizData) :
    LET d == vizData[i]
    IN i \in filteredData <=>
         /\ d.cluster \in activeClusters
         /\ \/ IsUndef(d.isCorrect)
            \/ correctnessFilter = "all"
            \/ correctnessFilter = "correct" /\ d.isCorrect = One
            \/ correctnessFilter = "incorrect" /\ d.isCorrect = Zero
         /\ \/ IsUndef(d.avgConfidence)
            \/ /\ ~Lt(d.avgConfidence, confidenceRange[1])
               /\ ~Lt(confidenceRange[2], d.avgConfidence)

\* h is a right answer of the picker for the pointer at m
PickOK(h, m) ==
  LET d2(i) == Dist2(vizData[i], transform, m)
  IN /\ h # 0 =>
          /\ h \in filteredData
          /\ Lt(d2(h), PickRadius2)
          /\ \A j \in filteredData : ~Lt(d2(j), d2(h))
     /\ h = 0 => \A j \in filteredData : ~Lt(d2(j), PickRadius2)

\* C13: a mousemove leaves as hovered point a visible point that is closer
\* to the pointer than the pick radius and no farther from it than any
\* other visible point, or no point when no visible point is closer than
\* the radius.
C13_PickNearestVisible ==
  [][(\E m \in Pointers : handleMouseMove(m)) => PickOK(hoveredPoint', mousePos')]_vizVars

\* the hovered point is the nearer of two visible points inside the radius
W_C13 ==
  /\ mousePos \in Pointers
  /\ hoveredPoint # 0
  /\ hoveredPoint \in filteredData
  /\ Lt(HoverDist2(hoveredPoint), PickRadius2)
  /\ \E j \in filteredData :
       /\ Lt(HoverDist2(hoveredPoint), HoverDist2(j))
       /\ Lt(HoverDist2(j), PickRadius2)

\* the pointer has moved and every visible point is at the radius or beyond
W_C13_None ==
  /\ hoveredPoint = 0
  /\ mousePos \in Pointers
  /\ filteredData # {}
  /\ \A j \in filteredData : ~Lt(HoverDist2(j), PickRadius2)
  /\ \E j \in filteredData : HoverDist2(j) = PickRadius2

\* C21: when several visible points are at the same smallest distance from
\* the pointer, points drawn at the same place included, a mousemove leaves
\* as hovered point the one that comes first among the visible points.
C21_TieGoesToFirst ==
  [][(\E m \in Pointers : handleMouseMove(m)) =>
       (hoveredPoint' # 0 =>
          \A j \in filteredData :
            Dist2(vizData[j], transform, mousePos') =
              Dist2(vizData[hoveredPoint'], transform, mousePos')
            => hoveredPoint' <= j)]_vizVars

\* C18: the Reset View step leaves the transform of the visualization at
\* the identity, every cluster active, the correctness filter "all" and the
\* confidence range at the data's [min, max], so that every point is visible.
C18_ResetRestoresView ==
  [][handleResetView =>
       /\ transform' = zoomIdentity
       /\ activeClusters' = ClustersOf(vizData)
       /\ correctnessFilter' = "all"
       /\ confidenceRange' = confidenceDataRange(vizData)
       /\ filteredData' = 1..Len(vizData)]_vizVars


\* lo <= a <= hi
Between(a, lo, hi) == ~Lt(a, lo) /\ ~Gt(a, hi)

W_C25_Reset ==
  /\ transform.k = Q(4, 5)
  /\ zoomProp = zoomIdentity

\* C26: the hovered point, when there is one, is a point of the visible
\* subset.
C26_HoveredIsVisible == hoveredPoint # 0 => hoveredPoint \in filteredData

\* ===================================================== confidenceMetrics
\* Logprobs, gaps and the gap percentiles are recorded as multiples of
\* ln 2: the logprob m stands for m * ln 2 nats, so that its surprisal in
\* bits and its probability are fractions.

\* s[i] of JavaScript, 0-based i written 1-based: undefined outside the array
At(s, i) == IF i \in 1..Len(s) THEN s[i] ELSE Undef

RECURSIVE Pow2(_)
Pow2(e) == IF e = 0 THEN 1 ELSE 2 * Pow2(e - 1)

\* Math.exp(logprob), of a whole multiple of ln 2
exp(logprob) ==
  LET x == ToNumber(logprob)
  IN IF x.d # 1 THEN NaN
     ELSE IF x.n < 0 THEN Q(1, Pow2(-x.n)) ELSE Q(Pow2(x.n), 1)

\* -logprob / Math.LN2
computeSurprisal(logprob) == Neg(logprob)

computeConfidence(surprisal, maxSurprisal) ==
  LET clampedSurprisal == Min2(surprisal, maxSurprisal)
  IN Sub(One, Div(clampedSurprisal, maxSurprisal))

computeGap(logprob, logprob2) == Sub(logprob, logprob2)

normalizeLocal(values) ==
  LET min == MathMin(values)
      max == MathMax(values)
  IN IF StrictEq(max, min) THEN [i \in 1..Len(values) |-> Half]
     ELSE [i \in 1..Len(values) |-> Div(Sub(values[i], min), Sub(max, min))]

\* Math.max(0, Math.min(1, normalized))
NoClamp(normalized) == normalized

Clamp(normalized) == Max2(Zero, Min2(One, normalized))

normalizeGlobal(values, p5, p95) ==
  LET range == Sub(p95, p5)
  IN IF StrictEq(range, Zero) THEN [i \in 1..Len(values) |-> Half]
     ELSE [i \in 1..Len(values) |-> Clamp(Div(Sub(values[i], p5), range))]

\* the test that ends computeTokenMetrics with "Global stats required ..."
StatsNeverMissing(mode, stats) == FALSE

StatsMissing(mode, stats) == mode # "local" /\ ~stats.present

\* what a call returns: the value, or that it threw
NotCalled == [st |-> "pending", out |-> <<>>]
Returned(out) == [st |-> "returned", out |-> out]
Threw == [st |-> "threw", out |-> <<>>]

\* computeTokenMetrics; a logprobs or tokens that is no array has no map
\* method, a logprobs2 that is no array reads as undefined at every index
computeTokenMetrics(tokens, logprobs, logprobs2, mode, stats) ==
  IF logprobs.kind # "array" THEN Threw
  ELSE
    LET lp == logprobs.v
        lp2 == logprobs2.v
        n == Len(lp)
        surprisals == [i \in 1..n |-> computeSurprisal(lp[i])]
        gaps == [i \in 1..n |-> computeGap(lp[i], At(lp2, i))]
        maxSurprisal == MathMax(surprisals)
        confidenceScores == [i \in 1..n |-> computeConfidence(surprisals[i], maxSurprisal)]
        confidenceP5 == computeConfidence(stats.surprisal_p95, maxSurprisal)
        confidenceP95 == computeConfidence(stats.surprisal_p5, maxSurprisal)
        normalizedSurprisals ==
          IF mode = "local" THEN normalizeLocal(surprisals)
          ELSE normalizeGlobal(surprisals, stats.surprisal_p5, stats.surprisal_p95)
        normalizedGaps ==
          IF mode = "local" THEN normalizeLocal(gaps)
          ELSE normalizeGlobal(gaps, stats.gap_p5, stats.gap_p95)
        normalizedConfidences ==
          IF mode = "local" THEN normalizeLocal(confidenceScores)
          ELSE normalizeGlobal(confidenceScores, confidenceP5, confidenceP95)
    IN IF StatsMissing(mode, stats) \/ tokens.kind # "array" THEN Threw
       ELSE Returned(
         [i \in 1..Len(tokens.v) |->
            [token |-> tokens.v[i],
             confidence |-> exp(At(lp, i)),
             logprob |-> At(lp, i),
             logprob2 |-> At(lp2, i),
             surprisal |-> At(surprisals, i),
             confidenceScore |-> At(confidenceScores, i),
             gap |-> At(gaps, i),
             normalizedSurprisal |-> At(normalizedSurprisals, i),
             normalizedConfidence |-> At(normalizedConfidences, i),
             normalizedGap |-> At(normalizedGaps, i)]])

\* [...values].sort((a, b) => a - b)
RECURSIVE Insert(_, _)
Insert(s, v) ==
  IF s = <<>> THEN <<v>>
  ELSE IF Lt(v, Head(s)) THEN <<v>> \o s
  ELSE <<Head(s)>> \o Insert(Tail(s), v)

RECURSIVE Sorted(_)
Sorted(values) ==
  IF values = <<>> THEN <<>>
  ELSE Insert(Sorted(SubSeq(values, 1, Len(values) - 1)), values[Len(values)])

computePercentile(values, percentile) ==
  LET sorted == Sorted(values)
      index == Floor(Mul(Q(Len(sorted), 1), percentile))
  IN IF IsFinite(index) THEN At(sorted, index.n + 1) ELSE Undef

\* ------------------------------------------------ calls of the functions
\* the arguments the functions are called with
SampleValues == {Q(-1, 1), Zero, Q(3, 2), Q(4, 1)}
SamplePercentiles == {Zero, Q(2, 5), Half, Q(19, 20), One}
PercentileExample == <<Q(5, 1), One, Q(4, 1), Q(2, 1), Q(3, 1)>>
SampleTokens == SeqsOf({"a", "b"}, 0, MaxTokens)
SampleLogprobs == {Arr(s) : s \in SeqsOf({Zero, Q(-1, 1), Q(-20, 1)}, 0, MaxTokens)} \cup {NotArray}
SampleLogprobs2 == {Arr(s) : s \in SeqsOf({Q(-2, 1), Q(-21, 1)}, 0, MaxTokens)} \cup {NotArray}
SampleStats == {NoStats, Stats(Zero, Q(4, 1), Zero, Q(2, 1)), Stats(One, One, One, One)}

Called(fn, tokens, values, values2, mode, stats, p5, p95, pct) ==
  [fn |-> fn, tokens |-> tokens, values |-> values, values2 |-> values2,
   mode |-> mode, stats |-> stats, p5 |-> p5, p95 |-> p95, pct |-> pct]

Calls ==
  {Called("normalizeLocal", <<>>, Arr(values), Absent, "local", NoStats, Undef, Undef, Undef) :
     values \in SeqsOf(SampleValues, 0, MaxValues)}
  \cup
  {Called("normalizeGlobal", <<>>, Arr(a[1]), Absent, "global", NoStats, a[2], a[3], Undef) :
     a \in SeqsOf(SampleValues, 0, MaxValues) \X SampleValues \X SampleValues}
  \cup
  {Called("computePercentile", <<>>, Arr(a[1]), Absent, "local", NoStats, Undef, Undef, a[2]) :
     a \in (SeqsOf(SampleValues, 1, MaxValues) \cup {PercentileExample}) \X SamplePercentiles}
  \cup
  {Called("computeTokenMetrics", a[1], a[2], a[3], a[4], a[5], Undef, Undef, Undef) :
     a \in SampleTokens \X SampleLogprobs \X SampleLogprobs2 \X {"local", "global"}
             \X SampleStats}

\* a call about to be made
MetricsCallInit ==
  /\ StoreIdle
  /\ AppLoaded
  /\ VizInit
  /\ DetailInit
  /\ mcall \in Calls
  /\ mret = NotCalled

CallNormalizeLocal ==
  /\ mret = NotCalled
  /\ mcall.fn = "normalizeLocal"
  /\ mret' = Returned(normalizeLocal(mcall.values.v))
  /\ UNCHANGED <<vars, appVars, vizVars, detailVars, mcall>>

CallNormalizeGlobal ==
  /\ mret = NotCalled
  /\ mcall.fn = "normalizeGlobal"
  /\ mret' = Returned(normalizeGlobal(mcall.values.v, mcall.p5, mcall.p95))
  /\ UNCHANGED <<vars, appVars, vizVars, detailVars, mcall>>

CallComputePercentile ==
  /\ mret = NotCalled
  /\ mcall.fn = "computePercentile"
  /\ mret' = Returned(<<computePercentile(mcall.values.v, mcall.pct)>>)
  /\ UNCHANGED <<vars, appVars, vizVars, detailVars, mcall>>

CallComputeTokenMetrics ==
  /\ mret = NotCalled
  /\ mcall.fn = "computeTokenMetrics"
  /\ mret' = computeTokenMetrics(Arr(mcall.tokens), mcall.values, mcall.values2,
                                 mcall.mode, mcall.stats)
  /\ UNCHANGED <<vars, appVars, vizVars, detailVars, mcall>>

MetricsNext ==
  \/ CallNormalizeLocal
  \/ CallNormalizeGlobal
  \/ CallComputePercentile
  \/ CallComputeTokenMetrics

MetricsSpec == MetricsCallInit /\ [][MetricsNext]_metricVars

\* ------------------------------------------ properties of the functions
In01(v) == IsFinite(v) /\ ~Lt(v, Zero) /\ ~Gt(v, One)

AllHalf(out) == \A i \in 1..Len(out) : out[i] = Half

IsConstant(values) == \A i \in 1..Len(values) : values[i] = values[1]

NormalizeReturned ==
  mret.st = "returned" /\ mcall.fn \in {"normalizeLocal", "normalizeGlobal"}

\* C14 as stated: both functions return as many values as they were given,
\* all in [0,1]; a constant input gives 0.5 everywhere from either
\* function, and so does normalizeGlobal when p95 = p5.
C14_ConstantInputIsHalf ==
  NormalizeReturned =>
    /\ Len(mret.out) = Len(mcall.values.v)
    /\ \A i \in 1..Len(mret.out) : In01(mret.out[i])
    /\ IsConstant(mcall.values.v) => AllHalf(mret.out)
    /\ (mcall.fn = "normalizeGlobal" /\ mcall.p95 = mcall.p5) => AllHalf(mret.out)

\* C14, amended: both functions return as many values as they were given,
\* all in [0,1]; normalizeLocal gives 0.5 everywhere for a constant input,
\* normalizeGlobal gives 0.5 everywhere when p95 = p5, and otherwise the
\* clamped (v - p5) / (p95 - p5) even when the input is constant.
C14_NormalizationBounds ==
  NormalizeReturned =>
    /\ Len(mret.out) = Len(mcall.values.v)
    /\ \A i \in 1..Len(mret.out) : In01(mret.out[i])
    /\ (mcall.fn = "normalizeLocal" /\ IsConstant(mcall.values.v)) => AllHalf(mret.out)
    /\ (mcall.fn = "normalizeGlobal" /\ mcall.p95 = mcall.p5) => AllHalf(mret.out)
    /\ (mcall.fn = "normalizeGlobal" /\ mcall.p95 # mcall.p5) =>
         \A i \in 1..Len(mret.out) :
           LET v == Div(Sub(mcall.values.v[i], mcall.p5), Sub(mcall.p95, mcall.p5))
           IN mret.out[i] = IF Lt(v, Zero) THEN Zero ELSE IF Gt(v, One) THEN One ELSE v

\* normalizeGlobal has clamped an outlier of a constant input to 1
W_C14 ==
  /\ NormalizeReturned
  /\ mcall.fn = "normalizeGlobal"
  /\ Len(mcall.values.v) > 1
  /\ IsConstant(mcall.values.v)
  /\ Gt(mcall.values.v[1], mcall.p95)
  /\ Gt(mcall.p95, mcall.p5)
  /\ \A i \in 1..Len(mret.out) : mret.out[i] = One

\* normalizeLocal has scaled a sequence that is not constant
W_C14_Local ==
  /\ NormalizeReturned
  /\ mcall.fn = "normalizeLocal"
  /\ \E i, j, k \in 1..Len(mret.out) :
       mret.out[i] = Zero /\ mret.out[j] = One /\ Lt(Zero, mret.out[k]) /\ Lt(mret.out[k], One)

\* C15: for a non-empty sequence of n values and p in [0,1], computePercentile
\* returns an element of the sequence, the one at index floor(n * p) of its
\* ascending-sorted copy.
C15_PercentileIsElement ==
  (mret.st = "returned" /\ mcall.fn = "computePercentile") =>
    LET values == mcall.values.v
        n == Len(values)
        index == (n * mcall.pct.n) \div mcall.pct.d
    IN /\ \E i \in 1..n : mret.out[1] = values[i]
       /\ index < n => mret.out[1] = Sorted(values)[index + 1]

\* computeTokenMetrics was called and its arguments are arrays
MetricsCalled == mret.st # "pending" /\ mcall.fn = "computeTokenMetrics"

\* C16: computeTokenMetrics in mode "global" without stats throws and
\* returns nothing; in mode "local", with or without stats, it returns one
\* entry per token, entry i carrying token i.
C16_GlobalNeedsStats ==
  MetricsCalled =>
    /\ (mcall.mode = "global" /\ ~mcall.stats.present) =>
         mret.st = "threw" /\ mret.out = <<>>
    /\ (mcall.mode = "local" /\ mcall.values.kind = "array") =>
         /\ mret.st = "returned"
         /\ Len(mret.out) = Len(mcall.tokens)
         /\ \A i \in 1..Len(mcall.tokens) : mret.out[i].token = mcall.tokens[i]

\* a global call without stats on a well-formed response of two tokens threw
W_C16 ==
  /\ MetricsCalled
  /\ mcall.mode = "global"
  /\ ~mcall.stats.present
  /\ Len(mcall.tokens) = 2
  /\ mcall.values.kind = "array" /\ Len(mcall.values.v) = 2
  /\ mcall.values2.kind = "array" /\ Len(mcall.values2.v) = 2
  /\ mret.st = "threw"

\* a local call without stats returned the two tokens in order
W_C16_Local ==
  /\ MetricsCalled
  /\ mcall.mode = "local"
  /\ ~mcall.stats.present
  /\ mcall.tokens = <<"b", "a">>
  /\ mret.st = "returned"
  /\ Len(mret.out) = 2

\* the arrays of the call are arrays as long as the token sequence
WellFormedCall ==
  /\ mcall.values.kind = "array" /\ Len(mcall.values.v) = Len(mcall.tokens)
  /\ mcall.values2.kind = "array" /\ Len(mcall.values2.v) = Len(mcall.tokens)

\* C20: every confidenceScore computeTokenMetrics returns for a well-formed
\* response is 1 - min(surprisal, 10) / 10, a number in [0,1].
C20_ConfidenceClampedAtTen ==
  (MetricsCalled /\ mret.st = "returned" /\ WellFormedCall) =>
    \A i \in 1..Len(mret.out) :
      LET m == mret.out[i]
          ten == Q(defaultMaxSurprisal, 1)
      IN /\ In01(m.confidenceScore)
         /\ m.confidenceScore =
              Sub(One, Div(IF Lt(m.surprisal, ten) THEN m.surprisal ELSE ten, ten))

\* ============================================================ DetailView
\* getMetricColor: the three numbers of the rgb(...) string
Mix(a, b, t) == Round(Add(Mul(Q(a, 1), Sub(One, t)), Mul(Q(b, 1), t)))

getMetricColor(normalizedValue, m) ==
  LET colorValue == IF m = "surprisal" THEN Sub(One, normalizedValue)
                    ELSE ToNumber(normalizedValue)
  IN IF Gt(colorValue, Q(66, 100))
       THEN LET t == Div(Sub(colorValue, Q(66, 100)), Q(34, 100))
            IN <<Mix(119, 34, t), Mix(221, 197, t), Mix(119, 94, t)>>
     ELSE IF Gt(colorValue, Q(33, 100))
       THEN LET t == Div(Sub(colorValue, Q(33, 100)), Q(33, 100))
            IN <<Mix(255, 119, t), Mix(235, 221, t), Mix(59, 119, t)>>
     ELSE LET t == Div(colorValue, Q(33, 100))
          IN <<Q(255, 1), Mix(107, 235, t), Mix(107, 59, t)>>

\* the normalized value of a token that is turned into its color
normalizedValue(tm, m) ==
  IF m = "surprisal" THEN tm.normalizedSurprisal
  ELSE IF m = "confidence" THEN tm.normalizedConfidence
  ELSE tm.normalizedGap

\* what renderTokens returns: the plain response text, or one colored span
\* per token
PlainText == [kind |-> "plain", spans |-> <<>>]

renderTokens(dat, mode, m, stats) ==
  IF dat.tokens.kind = "absent" THEN PlainText
  ELSE IF dat.logprobs.kind = "absent" \/ dat.logprobs2.kind = "absent" THEN PlainText
  ELSE LET r == computeTokenMetrics(dat.tokens, dat.logprobs, dat.logprobs2, mode,
                                    IF mode = "global" THEN stats ELSE NoStats)
       IN IF r.st = "threw" THEN PlainText
          ELSE [kind |-> "tokens",
                spans |-> [i \in 1..Len(r.out) |->
                             [token |-> r.out[i].token,
                              value |-> normalizedValue(r.out[i], m),
                              color |-> getMetricColor(normalizedValue(r.out[i], m), m)]]]

\* disabled={!globalStats} of the Scale select
ModeControlNeverDisabled(stats) == FALSE

ModeControlDisabled(stats) == ~stats.present

\* the records the store hands to the view
SampleRecords ==
  {[st |-> "ok", id |-> 0, tokens |-> t, logprobs |-> l, logprobs2 |-> l2] :
     t \in {Absent} \cup {Arr(s) : s \in SeqsOf({"a"}, 0, MaxTokens)},
     l \in {Absent} \cup SampleLogprobs,
     l2 \in {Absent} \cup SampleLogprobs2}

nonDetailVars == <<vars, appVars, vizVars, metricVars>>

\* /global_stats.json arrives: setGlobalStats
StatsLoaded(stats) ==
  /\ statsFetch = "pending"
  /\ stats.present
  /\ detail' = [detail EXCEPT !.globalStats = stats, !.statsFetch = "done"]
  /\ UNCHANGED nonDetailVars

\* the fetch fails or its body is no JSON: the error is logged
StatsFailed ==
  /\ statsFetch = "pending"
  /\ detail' = [detail EXCEPT !.statsFetch = "failed"]
  /\ UNCHANGED nonDetailVars

\* a responseDB.get(pointId) in flight resolves with a record: setData of
\* the record converted, setLoading(false).  The lookups are read-only
\* transactions of their own, which finish in any order.
PointLoaded(rec) ==
  \E k \in 1..Len(lookups) :
    /\ detail' = [detail EXCEPT !.data = [rec EXCEPT !.id = lookups[k]],
                                !.loading = FALSE,
                                !.lookups = RemoveAt(lookups, k)]
    /\ UNCHANGED nonDetailVars

\* it resolves with null or rejects: setError with a message that names the
\* id looked up, setLoading(false)
PointFailed ==
  \E k \in 1..Len(lookups) :
    /\ detail' = [detail EXCEPT !.error = lookups[k],
                                !.loading = FALSE,
                                !.lookups = RemoveAt(lookups, k)]
    /\ UNCHANGED nonDetailVars

\* the pointId prop changes while the view is mounted: the effect runs again
\* and fetchPointData starts, setLoading(true), setError(null), get(pointId)
selectPoint(id) ==
  /\ id # pointId
  /\ Len(lookups) < MaxLookups
  /\ detail' = [detail EXCEPT !.pointId = id,
                              !.loading = TRUE,
                              !.error = 0,
                              !.lookups = Append(lookups, id)]
  /\ UNCHANGED nonDetailVars

\* the Scale select, shown with the record, is changed
setNormMode(mode) ==
  /\ detailData.st = "ok"
  /\ ~ModeControlDisabled(globalStats)
  /\ detail' = [detail EXCEPT !.normMode = mode]
  /\ UNCHANGED nonDetailVars

\* the Metric select is changed
setMetric(m) ==
  /\ detailData.st = "ok"
  /\ detail' = [detail EXCEPT !.metric = m]
  /\ UNCHANGED nonDetailVars

\* the view is closed and later mounted again for a point: all state is
\* new, and what the lookups of the closed view deliver is dropped
onClose ==
  /\ detailData.st # "loading"
  /\ detail' = [pointId |-> 1,
                lookups |-> <<1>>,
                data |-> LoadingRecord,
                loading |-> TRUE,
                error |-> 0,
                normMode |-> "local",
                metric |-> "confidence",
                globalStats |-> NoStats,
                statsFetch |-> "pending"]
  /\ UNCHANGED nonDetailVars

DetailNext ==
  \/ \E stats \in SampleStats : StatsLoaded(stats)
  \/ StatsFailed
  \/ \E rec \in SampleRecords : PointLoaded(rec)
  \/ PointFailed
  \/ \E mode \in {"local", "global"} : setNormMode(mode)
  \/ \E m \in {"confidence", "surprisal", "gap"} : setMetric(m)
  \/ onClose

DetailSpec == FilterInit /\ [][DetailNext]_detailVars

\* -------------------------------------------- properties of the detail view
\* what the view shows for the record
Shown == renderTokens(detailData, normMode, metric, globalStats)

\* the record has tokens and both logprob fields, and one of the two is no
\* array or is not as long as the token sequence
Malformed(dat) ==
  /\ dat.tokens.kind = "array"
  /\ dat.logprobs.kind # "absent"
  /\ dat.logprobs2.kind # "absent"
  /\ \/ dat.logprobs.kind # "array"
     \/ dat.logprobs2.kind # "array"
     \/ Len(dat.logprobs.v) # Len(dat.tokens.v)
     \/ Len(dat.logprobs2.v) # Len(dat.tokens.v)

\* C17: a record with malformed or mismatched logprob arrays is shown as
\* plain text, and no token of any record is colored from a value that is
\* undefined or NaN.
C17_MalformedFallsBack ==
  detailData.st = "ok" =>
    /\ Malformed(detailData) => Shown.kind = "plain"
    /\ \A i \in 1..Len(Shown.spans) :
         ~IsUndef(Shown.spans[i].value) /\ ~IsNaN(Shown.spans[i].value)

\* C19: whenever the mode is "global" the global stats are loaded, so the
\* view never calls computeTokenMetrics in global mode without stats.
C19_GlobalModeHasStats ==
  /\ normMode = "global" => globalStats.present
  /\ ~StatsMissing(normMode, IF normMode = "global" THEN globalStats ELSE NoStats)

\* tokens are colored in global mode
W_C19 ==
  /\ normMode = "global"
  /\ globalStats.present
  /\ detailData.st = "ok"
  /\ Shown.kind = "tokens"
  /\ Len(Shown.spans) = 2

\* the stats never arrived and the record is shown in local mode
W_C19_NoStats ==
  /\ statsFetch = "failed"
  /\ detailData.st = "ok"
  /\ normMode = "local"
  /\ Shown.kind = "tokens"
  /\ Len(Shown.spans) = 2

\* ================================================= progress of the bulk load
\* The loader on payloads long enough for the loop of _loadFromFileInternal
\* to report: the lengths around the reporting step, entries of distinct ids.
PayloadLengths ==
  {0, 1, ProgressEvery - 1, ProgressEvery, ProgressEvery + 1, 2 * ProgressEvery}

LongPayloads == {[k \in 1..n |-> k] : n \in PayloadLengths}

\* a new session on a disk that is new, or at the expected version with the
\* store empty or holding a record of an earlier session
ProgressInit ==
  /\ payload \in LongPayloads
  /\ diskVersion \in {0, DB_VERSION}
  /\ store \in IF diskVersion = 0 THEN {EmptyStore}
               ELSE {EmptyStore, [k \in 1..1 |-> OldRecord(k)]}
  /\ db = "null"
  /\ initPromise = "null"
  /\ loadPromise = 0
  /\ loadOp = [o \in Ops |-> NoOp]
  /\ txq = <<>>
  /\ callers = [c \in Callers |-> NewCall("none", "idle", 0, 0, FALSE)]
  /\ waiters = <<>>
  /\ calls = 0
  /\ openRequests = 0
  /\ fetches = 0
  /\ writeTxs = 0
  /\ clears = 0
  /\ racedClears = 0
  /\ oldVersion = -1
  /\ Unmounted

\* load() is the only method called
ProgressNext ==
  \/ \E c \in Callers : CallLoad(c)
  \/ OpenSuccess
  \/ OpenError
  \/ \E o \in Ops : LoadAfterInit(o)
  \/ \E k \in 1..MaxCalls : LoadCountDone(k)
  \/ \E o \in Ops : FetchOk(o)
  \/ \E o \in Ops : FetchNotOk(o)
  \/ \E k \in 1..MaxCalls : TxComplete(k)
  \/ \E k \in 1..MaxCalls : TxAbort(k)

ProgressSpec == ProgressInit /\ [][ProgressNext]_vars

\* every entry of the fetched array is in the store
Committed(st, data) ==
  \A k \in 1..Len(data) : data[k] \in DOMAIN st /\ st[data[k]].src > 0

\* the reports (100, T), (200, T), ... of a payload of T records
StepReports(total) ==
  [j \in 1..(total \div ProgressEvery) |->
     [loaded |-> j * ProgressEvery, total |-> total, fromCache |-> FALSE]]

FinalReport(total) == [loaded |-> total, total |-> total, fromCache |-> FALSE]

\* C22: the caller that started a load which fetched a payload of T records
\* has got no report before the fetch settled, then the reports (k, T) for
\* k = 100, 200, ... <= T in increasing order, and after them (T, T) once
\* the load has resolved; no report is from the cache or has loaded > total;
\* and a report of (T, T) is made only in a step that leaves all T records
\* in the store.
C22_ProgressReports ==
  [][ \A c \in Callers :
        LET o == callers'[c].ref
            T == Len(payload)
            log == callers'[c].prog
        IN (callers'[c].op = "load" /\ callers'[c].own /\ loadOp'[o].path = "fetch") =>
             /\ log = CASE loadOp'[o].pc = "awaitFetch" -> <<>>
                        [] loadOp'[o].pc = "rejected" /\ loadOp'[o].err = "fetch" -> <<>>
                        [] loadOp'[o].pc = "awaitTx" -> StepReports(T)
                        [] loadOp'[o].pc = "rejected" /\ loadOp'[o].err = "tx" -> StepReports(T)
                        [] loadOp'[o].pc = "resolved" -> Append(StepReports(T), FinalReport(T))
             /\ \A j \in 1..Len(log) : ~log[j].fromCache /\ log[j].loaded <= log[j].total
             /\ \A j \in (Len(callers[c].prog) + 1)..Len(log) :
                  (callers[c].op = "load" /\ log[j] = FinalReport(T)) => Committed(store', payload)
    ]_vars

\* ============================================== lookups during the first load
\* a load operation is under way: it has not settled and is not merely due
\* to resume from an open that has already settled
LoadRunning ==
  \E o \in Ops : OpInFlight(o) /\ (loadOp[o].pc = "awaitInit" => initPromise = "pending")

\* get(id) is called while the load is under way
GetDuringLoad(c, id) == LoadRunning /\ CallGet(c, id)

\* load() and, while a load runs, get(id) are the only methods called
LookupNext ==
  \/ \E c \in Callers : CallLoad(c)
  \/ \E c \in Callers, id \in Ids : GetDuringLoad(c, id)
  \/ OpenSuccess
  \/ OpenError
  \/ \E o \in Ops : LoadAfterInit(o)
  \/ \E k \in 1..MaxCalls : GetDone(k)
  \/ \E k \in 1..MaxCalls : LoadCountDone(k)
  \/ \E o \in Ops : FetchOk(o)
  \/ \E o \in Ops : FetchNotOk(o)
  \/ \E k \in 1..MaxCalls : TxComplete(k)
  \/ \E k \in 1..MaxCalls : TxAbort(k)

LookupSpec == Init /\ [][LookupNext]_vars

GetCallers == {c \in Callers : callers[c].op = "get"}

\* the records a lookup of id may give: an entry of the payload with that
\* id, or the record of that id left by an earlier session
RecordsOf(id) ==
  {Item(payload, k) : k \in {j \in 1..Len(payload) : payload[j] = id}} \cup {OldRecord(id)}

W_C23_OpenFailed ==
  /\ initPromise = "rejected"
  /\ \E c \in GetCallers : callers[c].pc = "done" /\ callers[c].res = Rejected("open")
  /\ \E c \in LoadCallers : callers[c].own

\* ------------------------------------- the detail view when its point changes
\* a record without tokens, shown as plain text
PlainRecord == [LoadingRecord EXCEPT !.st = "ok"]

\* the prop changes, and the lookups resolve in any order
SelectionNext ==
  \/ \E id \in Ids : selectPoint(id)
  \/ PointLoaded(PlainRecord)
  \/ PointFailed
  \/ onClose

SelectionSpec == FilterInit /\ [][SelectionNext]_detailVars

\* C29: once no lookup is in flight, the view is not loading and shows the
\* record of the pointId selected last, or the error that says that this
\* pointId was not found.
C29_ShowsLatestSelection ==
  lookups = <<>> =>
    \/ detailData.st = "ok" /\ detailData.id = pointId
    \/ detailData.st = "error" /\ detail.error = pointId

\* ============================================================ the application
\* App after its first render, before its effect has run: loadingDB is
\* true, dbError is null, and no component below it is mounted.  A reload of
\* the page (the Retry button) starts the application again in such a state.
AppInit ==
  /\ payload \in {<<>>, <<1>>}
  /\ diskVersion \in {0, DB_VERSION}
  /\ store \in IF diskVersion = 0 THEN {EmptyStore}
               ELSE {EmptyStore, [k \in 1..1 |-> OldRecord(k)]}
  /\ db = "null"
  /\ initPromise = "null"
  /\ loadPromise = 0
  /\ loadOp = [o \in Ops |-> NoOp]
  /\ txq = <<>>
  /\ callers = [c \in Callers |-> NewCall("none", "idle", 0, 0, FALSE)]
  /\ waiters = <<>>
  /\ calls = 0
  /\ openRequests = 0
  /\ fetches = 0
  /\ writeTxs = 0
  /\ clears = 0
  /\ racedClears = 0
  /\ oldVersion = -1
  /\ app = [loadingDB |-> TRUE, dbError |-> "", resumed |-> {}]
  /\ viz = <<>>
  /\ detail = <<>>
  /\ mcall = <<>>
  /\ mret = <<>>

\* the effect of App runs initDB, which calls loadFromFile: once, and again
\* where React runs the effects of a mount more than once, always before
\* the open request has an outcome
EffectRuns(c) ==
  /\ callers[c].op = "none"
  /\ initPromise \in {"null", "pending"}
  /\ \A b \in 1..(c - 1) : callers[b].op = "load"
  /\ CallLoad(c)

\* a caller that is no run of initDB
Elsewhere(c) == c > 1 /\ callers[c].op # "load"

\* initDB after a load that resolved: setLoadingDB(false)
AfterTry(a, c) ==
  [a EXCEPT !.loadingDB = FALSE, !.resumed = @ \cup {c}]

AfterCatchKeepsLoading(a, c, message) ==
  [a EXCEPT !.dbError = message, !.resumed = @ \cup {c}]

\* initDB after a load that was rejected: setDbError(err.message),
\* setLoadingDB(false)
AfterCatch(a, c, message) ==
  [a EXCEPT !.dbError = message, !.loadingDB = FALSE, !.resumed = @ \cup {c}]

\* a run of initDB resumes after its await
AppResumes(c) ==
  /\ callers[c].op = "load"
  /\ callers[c].pc = "done"
  /\ c \notin app.resumed
  /\ app' = IF callers[c].res.st = "resolved"
              THEN AfterTry(app, c)
              ELSE AfterCatch(app, c, callers[c].res.err)
  /\ UNCHANGED <<vars, vizVars, detailVars, metricVars>>

\* get, count and clear called by other code while the application runs
GetElsewhere(c, id) == Elsewhere(c) /\ CallGet(c, id)

CountElsewhere(c) == Elsewhere(c) /\ CallCount(c)

ClearElsewhere(c) == Elsewhere(c) /\ CallClear(c)

AppNext ==
  \/ \E c \in Callers : EffectRuns(c)
  \/ \E c \in Callers, id \in Ids : GetElsewhere(c, id)
  \/ \E c \in Callers : CountElsewhere(c)
  \/ \E c \in Callers : ClearElsewhere(c)
  \/ OpenSuccess
  \/ OpenError
  \/ \E o \in Ops : LoadAfterInit(o)
  \/ \E k \in 1..MaxCalls : GetDone(k)
  \/ \E k \in 1..MaxCalls : CountDone(k)
  \/ \E k \in 1..MaxCalls : LoadCountDone(k)
  \/ \E k \in 1..MaxCalls : ClearDone(k)
  \/ \E o \in Ops : FetchOk(o)
  \/ \E o \in Ops : FetchNotOk(o)
  \/ \E k \in 1..MaxCalls : TxComplete(k)
  \/ \E k \in 1..MaxCalls : TxAbort(k)
  \/ \E c \in Callers : AppResumes(c)

appSpecVars == <<vars, appVars>>

AppSpec == AppInit /\ [][AppNext]_appSpecVars

ScreenIgnoresError == IF loadingDB THEN "loading" ELSE "visualization"

\* what App renders
Screen ==
  IF loadingDB THEN "loading"
  ELSE IF dbError # "" THEN "error"
  ELSE "visualization"

\* the runs of initDB
Runs == {c \in Callers : callers[c].op = "load"}

Settled(c) == callers[c].pc = "done"

W_C30_Error ==
  /\ Cardinality(Runs) = 2
  /\ app.resumed = Runs
  /\ fetches > 0
  /\ \A c \in Runs : callers[c].res.st = "rejected"
  /\ Screen = "error"

\* ------------------------------------------------------- the load terminates
\* the effect of App runs after the first render; the open request, the
\* fetch and every transaction come to an end; a continuation that can run
\* does run
AppLiveSpec ==
  /\ AppSpec
  /\ WF_appSpecVars(EffectRuns(1))
  /\ WF_appSpecVars(OpenSuccess \/ OpenError)
  /\ WF_appSpecVars(\E o \in Ops : LoadAfterInit(o))
  /\ WF_appSpecVars(\E o \in Ops : FetchOk(o) \/ FetchNotOk(o))
  /\ WF_appSpecVars(\E k \in 1..MaxCalls :
                      \/ GetDone(k) \/ CountDone(k) \/ LoadCountDone(k) \/ ClearDone(k)
                      \/ TxComplete(k) \/ TxAbort(k))
  /\ WF_appSpecVars(\E c \in Callers : AppResumes(c))

\* C24: every load that was started settles, resolved or rejected, whatever
\* else is called meanwhile, and the loading screen is replaced by the
\* visualization or the error screen.
C24_LoadSettles ==
  /\ \A c \in Callers :
       (callers[c].op = "load") ~>
         (Settled(c) /\ callers[c].res.st \in {"resolved", "rejected"})
  /\ <>(Screen \in {"visualization", "error"})

\* a clear took effect while the load was in flight, the load has settled
\* all the same and the loading screen is gone
W_C24 ==
  /\ racedClears > 0
  /\ \A c \in Runs : Settled(c)
  /\ Runs # {}
  /\ Screen # "loading"
====
